---------------------------- MODULE Spec2Model ----------------------------
(***************************************************************************)
(* Model of src/hierarchical-crosstab.js: the drill-down crosstab.         *)
(*                                                                         *)
(* JavaScript values are encoded as tuples so that they can be compared:   *)
(*   a string   is the tuple of its characters, "a|b" = <<"a","|","b">>    *)
(*   null       is <<"null">>, undefined is <<"undefined">>                *)
(*   a number n is <<"num", n>>                                            *)
(* An object used as a map of nested objects (the data tree) is a function *)
(* from the path of keys leading to a node to that node's own fields; the  *)
(* children map of the node at path p is the set of nodes at paths p \o    *)
(* <<k>>.  Hierarchy values that are names of Object.prototype are not     *)
(* part of the value sets used here.                                       *)
(***************************************************************************)
EXTENDS Integers, Sequences, FiniteSets, TLC

VARIABLES
    source,          \* the worksheet's summary data: columns and rows (environment)
    pc,              \* where the initialisation / loadData promise chain stands
    worksheet,       \* line 10
    hierarchyFields, \* line 11
    measureFields,   \* line 12
    fullDataTree,    \* line 13
    expandedNodes,   \* line 14
    allData,         \* loadData's local, line 54
    tableRows,       \* the <tr> elements of #crosstab's tbody
    errorText,       \* #error: NoText while hidden, else the message kind shown
    loadingShown,    \* #loading is displayed
    containerShown,  \* #container is displayed
    lastToggle,      \* history: argument of the last toggleNode call
    prevExpanded,    \* history: expandedNodes when that call began
    twiceFrom        \* history: when the last two toggleNode calls had the same
                     \* argument, expandedNodes when the first of them began

vars == << source, pc, worksheet, hierarchyFields, measureFields, fullDataTree,
           expandedNodes, allData, tableRows, errorText, loadingShown,
           containerShown, lastToggle, prevExpanded, twiceFrom >>

history == << lastToggle, prevExpanded, twiceFrom >>

---------------------------------------------------------------------------
(* Bounds *)

MaxRows == 2

MaxPathLen == 1

MaxExpanded == 2

---------------------------------------------------------------------------
(* JavaScript values *)

JsNull == << "null" >>

JsUndefined == << "undefined" >>

PctNull == << "%", "n", "u", "l", "l", "%" >>

Separator == "|"

Num(n) == << "num", n >>

KeyA == << "a" >>

KeyB == << "b" >>

KeyAB == << "a", "|", "b" >>

\* UTF-16 code units of the characters that occur in keys
CharCode(c) ==
    CASE c = "%" -> 37
      [] c = "a" -> 97
      [] c = "b" -> 98
      [] c = "l" -> 108
      [] c = "n" -> 110
      [] c = "u" -> 117
      [] c = "|" -> 124

\* String.prototype.startsWith
StartsWith(s, prefix) ==
    /\ Len(prefix) <= Len(s)
    /\ SubSeq(s, 1, Len(prefix)) = prefix

\* Array.prototype.join('|')
RECURSIVE Join(_)
Join(path) ==
    IF path = << >> THEN << >>
    ELSE IF Len(path) = 1 THEN path[1]
    ELSE path[1] \o << Separator >> \o Join(Tail(path))

\* the default comparison of Array.prototype.sort: by UTF-16 code units
RECURSIVE StringLess(_, _)
StringLess(s, t) ==
    IF t = << >> THEN FALSE
    ELSE IF s = << >> THEN TRUE
    ELSE IF CharCode(Head(s)) # CharCode(Head(t))
         THEN CharCode(Head(s)) < CharCode(Head(t))
    ELSE StringLess(Tail(s), Tail(t))

\* mutant of SortedKeys: the keys in descending order
SortedKeysDescending(keys) ==
    CHOOSE seq \in [ 1..Cardinality(keys) -> keys ] :
        \A i, j \in 1..Cardinality(keys) : i < j => StringLess(seq[j], seq[i])

\* Object.keys(...).sort()
RECURSIVE SortedKeys(_)
SortedKeys(keys) ==
    IF keys = {} THEN << >>
    ELSE LET least == CHOOSE k \in keys : \A other \in keys \ {k} : StringLess(k, other)
         IN  << least >> \o SortedKeys(keys \ {least})

---------------------------------------------------------------------------
(* The data source: dataTable.columns and the rows of dataTable.pages *)

ColumnNames == << "c0", "c1", "c2", "c3" >>

\* the columns of a worksheet whose columns have the data types `types`;
\* col.index is 0-based
ColumnsOf(types) ==
    [ i \in 1..Len(types) |->
        [ index |-> i - 1, fieldName |-> ColumnNames[i], dataType |-> types[i] ] ]

\* the values of string cells: two names, and the text that stands for no value
StringValues == { KeyA, KeyB, PctNull }

\* the values of date cells: two dates (written like the names), and null
DateValues == { KeyA, KeyB, JsNull }

\* the values of date-time cells: a time, a time whose text holds the
\* separator, and a cell without a value
DateTimeValues == { KeyA, KeyAB, JsUndefined }

MeasureValues == { Num(1), Num(2), JsNull }

\* the values a cell of a column of data type `type` may hold
CellValues(type) ==
    IF type = "string" THEN StringValues
    ELSE IF type = "date" THEN DateValues
    ELSE IF type = "date-time" THEN DateTimeValues
    ELSE IF type \in { "float", "int" } THEN MeasureValues
    ELSE { JsNull }

\* all rows of a worksheet with these column types: row[i].value for each column
RowsOf(types) ==
    { row \in [ 1..Len(types) ->
                   StringValues \cup DateValues \cup DateTimeValues \cup MeasureValues ] :
        \A i \in 1..Len(types) : row[i] \in CellValues(types[i]) }

RowListsOf(types) ==
    UNION { [ 1..n -> RowsOf(types) ] : n \in 0..MaxRows }

DataSetsOf(types) ==
    { [ columns |-> ColumnsOf(types), rows |-> rows ] : rows \in RowListsOf(types) }

---------------------------------------------------------------------------
(* identifyFieldTypes, lines 85-103 *)

\* mutant of IsHierarchyType: columns of type date-time are not recognised
IsHierarchyTypeWithoutDateTime(col) ==
    col.dataType = "string" \/ col.dataType = "date"

IsHierarchyType(col) ==
    col.dataType = "string" \/ col.dataType = "date-time" \/ col.dataType = "date"

IsMeasureType(col) ==
    col.dataType = "float" \/ col.dataType = "int"

FieldOf(col) == [ index |-> col.index, fieldName |-> col.fieldName ]

RECURSIVE identifyFieldTypes(_)
identifyFieldTypes(columns) ==
    IF columns = << >>
    THEN [ hierarchyFields |-> << >>, measureFields |-> << >> ]
    ELSE LET col  == columns[Len(columns)]
             rest == identifyFieldTypes(SubSeq(columns, 1, Len(columns) - 1))
         IN  IF IsHierarchyType(col)
             THEN [ rest EXCEPT !.hierarchyFields = Append(@, FieldOf(col)) ]
             ELSE IF IsMeasureType(col)
             THEN [ rest EXCEPT !.measureFields = Append(@, FieldOf(col)) ]
             ELSE rest

---------------------------------------------------------------------------
(* buildHierarchicalTree, lines 108-147 *)

\* the test of line 118
IsNullValue(value) ==
    value = JsNull \/ value = JsUndefined \/ value = PctNull

\* row[field.index].value
CellOf(row, field) == row[field.index + 1]

EmptyObject == << >>

\* the object literal of lines 124-130
NewNode(value, levelIndex, hFields) ==
    [ name        |-> value,
      level       |-> levelIndex,
      measures    |-> EmptyObject,
      hasChildren |-> levelIndex < Len(hFields) - 1 ]

\* mutant of StoreMeasures: a measure a node already has is kept
RECURSIVE StoreMeasuresKeepFirst(_, _, _, _)
StoreMeasuresKeepFirst(measures, row, mFields, m) ==
    IF m > Len(mFields) THEN measures
    ELSE LET measureValue == CellOf(row, mFields[m])
             stored == IF measureValue # JsNull /\ measureValue # JsUndefined
                       THEN measures @@ (mFields[m].fieldName :> measureValue)
                       ELSE measures
         IN  StoreMeasuresKeepFirst(stored, row, mFields, m + 1)

\* lines 134-139 for the measure fields mFields[m..]: the node's measures after it
RECURSIVE StoreMeasures(_, _, _, _)
StoreMeasures(measures, row, mFields, m) ==
    IF m > Len(mFields) THEN measures
    ELSE LET measureValue == CellOf(row, mFields[m])
             stored == IF measureValue # JsNull /\ measureValue # JsUndefined
                       THEN (mFields[m].fieldName :> measureValue) @@ measures
                       ELSE measures
         IN  StoreMeasures(stored, row, mFields, m + 1)

\* What the callback of line 115 does with a null value: `return` ends this
\* call of the callback only, and forEach goes on to the next field with
\* currentLevel as it was.
AfterNullValue(tree, cursor) == [ tree |-> tree, cursor |-> cursor ]

\* One call of the callback of line 115 for a non-null value: lines 122-142.
\* `cursor` is the path of the node whose children map currentLevel is
\* (<< >> for the tree itself).
VisitNode(tree, cursor, value, levelIndex, row, hFields, mFields) ==
    LET path    == Append(cursor, value)
        created == IF path \in DOMAIN tree
                   THEN tree
                   ELSE (path :> NewNode(value, levelIndex, hFields)) @@ tree
        written == [ created EXCEPT ![path].measures =
                        StoreMeasures(@, row, mFields, 1) ]
    IN  [ tree |-> written, cursor |-> path ]

\* hierarchyFields.forEach of line 115, from field number levelIndex on
RECURSIVE WalkRow(_, _, _, _, _, _)
WalkRow(tree, cursor, levelIndex, row, hFields, mFields) ==
    IF levelIndex >= Len(hFields) THEN tree
    ELSE LET value == CellOf(row, hFields[levelIndex + 1])
             next  == IF IsNullValue(value)
                      THEN AfterNullValue(tree, cursor)
                      ELSE VisitNode(tree, cursor, value, levelIndex, row,
                                     hFields, mFields)
         IN  WalkRow(next.tree, next.cursor, levelIndex + 1, row, hFields, mFields)

\* data.forEach of line 111 over data[r..]
RECURSIVE BuildFrom(_, _, _, _, _)
BuildFrom(tree, data, r, hFields, mFields) ==
    IF r > Len(data) THEN tree
    ELSE BuildFrom(WalkRow(tree, << >>, 0, data[r], hFields, mFields),
                   data, r + 1, hFields, mFields)

buildHierarchicalTree(data, hFields, mFields) ==
    BuildFrom(EmptyObject, data, 1, hFields, mFields)

---------------------------------------------------------------------------
(* renderTable, renderTreeLevel and formatNumber, lines 152-265, 291-307 *)

CurrencyThreshold == 100

Abs(n) == IF n < 0 THEN 0 - n ELSE n

\* formatNumber, lines 291-307: the text of a number is its digits, with '$'
\* in front from CurrencyThreshold on; any other value is returned as it is
formatNumber(value) ==
    IF Len(value) = 2 /\ value[1] = "num"
    THEN IF Abs(value[2]) >= CurrencyThreshold
         THEN << "text", "$", value[2] >>
         ELSE << "text", "", value[2] >>
    ELSE value

EmptyText == << "text" >>

\* Object.keys(node.children) for the node at `path` (the tree itself for << >>)
ChildKeys(tree, path) ==
    { p[Len(p)] : p \in { q \in DOMAIN tree :
                            Len(q) = Len(path) + 1 /\ SubSeq(q, 1, Len(path)) = path } }

\* the test of lines 218 and 239
HasExpandableChildren(tree, path) ==
    tree[path].hasChildren /\ Cardinality(ChildKeys(tree, path)) > 0

\* mutant of DescendsInto: the children are rendered whether or not the
\* node is expanded
DescendsIntoAlways(tree, expanded, path) ==
    tree[path].hasChildren /\ Cardinality(ChildKeys(tree, path)) > 0

\* the test of line 261
DescendsInto(tree, expanded, path) ==
    Join(path) \in expanded /\ tree[path].hasChildren
        /\ Cardinality(ChildKeys(tree, path)) > 0

\* lines 246-256: the texts of the measure cells of a node
MeasureCells(node, mFields) ==
    [ m \in 1..Len(mFields) |->
        IF mFields[m].fieldName \in DOMAIN node.measures
        THEN formatNumber(node.measures[mFields[m].fieldName])
        ELSE EmptyText ]

\* the <tr> built by lines 189-258 for the node at currentPath
TableRow(tree, expanded, level, currentPath, mFields) ==
    [ dataLevel   |-> level,
      dataPath    |-> Join(currentPath),
      expanded    |-> Join(currentPath) \in expanded,
      icon        |-> HasExpandableChildren(tree, currentPath),
      name        |-> tree[currentPath].name,
      onClick     |-> HasExpandableChildren(tree, currentPath),
      currentPath |-> currentPath,
      cells       |-> MeasureCells(tree[currentPath], mFields) ]

\* renderTreeLevel(treeLevel, tbody, level, path), lines 185-265, where
\* treeLevel is the children map of the node at `path`: the rows it appends.
\* RenderKeys is its forEach over sortedKeys[k..].
RECURSIVE RenderKeys(_, _, _, _, _, _, _)
renderTreeLevel(tree, expanded, level, path, mFields) ==
    RenderKeys(tree, expanded, level, path, mFields,
               SortedKeys(ChildKeys(tree, path)), 1)

RenderKeys(tree, expanded, level, path, mFields, sortedKeys, k) ==
    IF k > Len(sortedKeys) THEN << >>
    ELSE LET currentPath == Append(path, sortedKeys[k])
             row      == TableRow(tree, expanded, level, currentPath, mFields)
             children == IF DescendsInto(tree, expanded, currentPath)
                         THEN renderTreeLevel(tree, expanded, level + 1,
                                              currentPath, mFields)
                         ELSE << >>
         IN  << row >> \o children
               \o RenderKeys(tree, expanded, level, path, mFields, sortedKeys, k + 1)

\* renderTable, lines 152-180: the new content of #crosstab
renderTable(tree, expanded, hFields, mFields) ==
    [ head |-> << hFields[1].fieldName >>
                 \o [ m \in 1..Len(mFields) |-> mFields[m].fieldName ],
      body |-> renderTreeLevel(tree, expanded, 0, << >>, mFields) ]

---------------------------------------------------------------------------
(* toggleNode, lines 270-286: its effect on expandedNodes *)

\* mutant of toggleNode: collapsing removes the node's own key only
toggleNodeNoCascade(expanded, path) ==
    IF Join(path) \in expanded
    THEN expanded \ { Join(path) }
    ELSE expanded \cup { Join(path) }

\* mutant of toggleNode: expanding a node collapses every other node
toggleNodeAccordion(expanded, path) ==
    IF Join(path) \in expanded
    THEN { p \in expanded :
             ~(p = Join(path) \/ StartsWith(p, Join(path) \o << Separator >>)) }
    ELSE { Join(path) }

\* mutant of toggleNode: collapsing removes the descendants' keys and leaves
\* the node's own
toggleNodeKeepsSelf(expanded, path) ==
    IF Join(path) \in expanded
    THEN { p \in expanded : ~StartsWith(p, Join(path) \o << Separator >>) }
    ELSE expanded \cup { Join(path) }

toggleNode(expanded, path) ==
    LET pathKey == Join(path)
    IN  IF pathKey \in expanded
        THEN LET pathsToRemove ==
                    { p \in expanded :
                        p = pathKey \/ StartsWith(p, pathKey \o << Separator >>) }
             IN  expanded \ pathsToRemove
        ELSE expanded \cup { pathKey }

---------------------------------------------------------------------------
(* State *)

NoText == "none"

NullTree == [ isNull |-> TRUE, nodes |-> EmptyObject ]

EmptyTable == [ head |-> << >>, body |-> << >> ]

NoPath == << >>

NotTwice == { << "not twice" >> }

\* the column types of the worksheets loaded
MainTypes == << "string", "date", "float" >>

NoMeasureTypes == << "bool", "string" >>

NoHierarchyTypes == << "int" >>

Sources ==
    DataSetsOf(MainTypes) \cup DataSetsOf(NoMeasureTypes) \cup DataSetsOf(NoHierarchyTypes)

\* lines 10-14, and the page before the extension has run
InitWith(src) ==
    /\ source = src
    /\ pc = "initializing"
    /\ worksheet = "null"
    /\ hierarchyFields = << >>
    /\ measureFields = << >>
    /\ fullDataTree = NullTree
    /\ expandedNodes = {}
    /\ allData = << >>
    /\ tableRows = EmptyTable
    /\ errorText = NoText
    /\ loadingShown = TRUE
    /\ containerShown = FALSE
    /\ lastToggle = NoPath
    /\ prevExpanded = {}
    /\ twiceFrom = NotTwice

Init == \E src \in Sources : InitWith(src)

\* showError, lines 312-318
ShowError(message) ==
    /\ errorText' = message
    /\ loadingShown' = FALSE

---------------------------------------------------------------------------
(* Initialisation and loadData, lines 17-80 *)

\* initializeAsync resolves: loadData runs up to the await of line 34
InitializeOk ==
    /\ pc = "initializing"
    /\ worksheet' = "worksheet"
    /\ pc' = "awaitReader"
    /\ UNCHANGED << source, hierarchyFields, measureFields, fullDataTree,
                    expandedNodes, allData, tableRows, errorText, loadingShown,
                    containerShown, history >>

\* initializeAsync rejects: lines 20-22
InitializeFail ==
    /\ pc = "initializing"
    /\ ShowError("Failed to initialize extension")
    /\ pc' = "failed"
    /\ UNCHANGED << source, worksheet, hierarchyFields, measureFields, fullDataTree,
                    expandedNodes, allData, tableRows, containerShown,
                    history >>

\* getSummaryDataReaderAsync rejects: lines 76-79
ReaderFail ==
    /\ pc = "awaitReader"
    /\ ShowError("Error loading data")
    /\ pc' = "failed"
    /\ UNCHANGED << source, worksheet, hierarchyFields, measureFields, fullDataTree,
                    expandedNodes, allData, tableRows, containerShown,
                    history >>

\* mutant of ReaderOk: the test for measure fields is missing
ReaderOkSkipsMeasureCheck ==
    /\ pc = "awaitReader"
    /\ LET fields == identifyFieldTypes(source.columns)
       IN  /\ hierarchyFields' = fields.hierarchyFields
           /\ measureFields' = fields.measureFields
           /\ IF Len(fields.hierarchyFields) = 0
              THEN /\ ShowError("No hierarchy fields found")
                   /\ pc' = "returned"
                   /\ UNCHANGED allData
              ELSE /\ allData' = source.rows
                   /\ pc' = "awaitRelease"
                   /\ UNCHANGED << errorText, loadingShown >>
    /\ UNCHANGED << source, worksheet, fullDataTree, expandedNodes, tableRows,
                    containerShown, history >>

\* getSummaryDataReaderAsync resolves: lines 37-59, up to the await of line 59
ReaderOk ==
    /\ pc = "awaitReader"
    /\ LET fields == identifyFieldTypes(source.columns)
       IN  /\ hierarchyFields' = fields.hierarchyFields
           /\ measureFields' = fields.measureFields
           /\ IF Len(fields.hierarchyFields) = 0
              THEN /\ ShowError("No hierarchy fields found")
                   /\ pc' = "returned"
                   /\ UNCHANGED allData
              ELSE IF Len(fields.measureFields) = 0
              THEN /\ ShowError("No measure fields found")
                   /\ pc' = "returned"
                   /\ UNCHANGED allData
              ELSE /\ allData' = source.rows
                   /\ pc' = "awaitRelease"
                   /\ UNCHANGED << errorText, loadingShown >>
    /\ UNCHANGED << source, worksheet, fullDataTree, expandedNodes, tableRows,
                    containerShown, history >>

\* mutant of ReleaseFail: the tree is built before the reader is released
ReleaseFailAfterBuild ==
    /\ pc = "awaitRelease"
    /\ fullDataTree' =
          [ isNull |-> FALSE,
            nodes  |-> buildHierarchicalTree(allData, hierarchyFields, measureFields) ]
    /\ ShowError("Error loading data")
    /\ pc' = "failed"
    /\ UNCHANGED << source, worksheet, hierarchyFields, measureFields,
                    expandedNodes, allData, tableRows, containerShown,
                    history >>

\* releaseAsync rejects: lines 76-79
ReleaseFail ==
    /\ pc = "awaitRelease"
    /\ ShowError("Error loading data")
    /\ pc' = "failed"
    /\ UNCHANGED << source, worksheet, hierarchyFields, measureFields, fullDataTree,
                    expandedNodes, allData, tableRows, containerShown,
                    history >>

\* mutant of ReleaseOk: the first render shows the top-level nodes expanded
ReleaseOkExpandsTopLevel ==
    /\ pc = "awaitRelease"
    /\ LET tree == buildHierarchicalTree(allData, hierarchyFields, measureFields)
       IN  /\ fullDataTree' = [ isNull |-> FALSE, nodes |-> tree ]
           /\ expandedNodes' = { Join(p) : p \in { q \in DOMAIN tree : Len(q) = 1 } }
           /\ tableRows' = renderTable(tree, expandedNodes', hierarchyFields,
                                       measureFields)
    /\ loadingShown' = FALSE
    /\ containerShown' = TRUE
    /\ pc' = "ready"
    /\ UNCHANGED << source, worksheet, hierarchyFields, measureFields,
                    allData, errorText, history >>

\* releaseAsync resolves: lines 61-74
ReleaseOk ==
    /\ pc = "awaitRelease"
    /\ LET tree == buildHierarchicalTree(allData, hierarchyFields, measureFields)
       IN  /\ fullDataTree' = [ isNull |-> FALSE, nodes |-> tree ]
           /\ tableRows' = renderTable(tree, expandedNodes, hierarchyFields,
                                       measureFields)
    /\ loadingShown' = FALSE
    /\ containerShown' = TRUE
    /\ pc' = "ready"
    /\ UNCHANGED << source, worksheet, hierarchyFields, measureFields,
                    expandedNodes, allData, errorText, history >>

---------------------------------------------------------------------------
(* Clicks, lines 238-243 and 270-286 *)

\* mutant of ToggleAndRender: collapsing a node drops its descendants from
\* the tree
ToggleAndRenderPruning(path) ==
    /\ expandedNodes' = toggleNode(expandedNodes, path)
    /\ fullDataTree' =
          IF Join(path) \in expandedNodes
          THEN [ fullDataTree EXCEPT !.nodes =
                   [ p \in { q \in DOMAIN fullDataTree.nodes :
                               ~(Len(q) > Len(path) /\ SubSeq(q, 1, Len(path)) = path) }
                       |-> fullDataTree.nodes[p] ] ]
          ELSE fullDataTree
    /\ tableRows' = renderTable(fullDataTree'.nodes, expandedNodes',
                                hierarchyFields, measureFields)
    /\ lastToggle' = path
    /\ prevExpanded' = expandedNodes
    /\ twiceFrom' = IF lastToggle = path THEN prevExpanded ELSE NotTwice
    /\ UNCHANGED << source, pc, worksheet, hierarchyFields, measureFields,
                    allData, errorText, loadingShown, containerShown >>

\* mutant of ToggleAndRender: the table is not rendered again
ToggleAndRenderStale(path) ==
    /\ expandedNodes' = toggleNode(expandedNodes, path)
    /\ lastToggle' = path
    /\ prevExpanded' = expandedNodes
    /\ twiceFrom' = IF lastToggle = path THEN prevExpanded ELSE NotTwice
    /\ UNCHANGED << source, pc, worksheet, hierarchyFields, measureFields,
                    fullDataTree, allData, tableRows, errorText, loadingShown,
                    containerShown >>

\* toggleNode(path) as a whole: the change of expandedNodes, then renderTable
ToggleAndRender(path) ==
    /\ expandedNodes' = toggleNode(expandedNodes, path)
    /\ tableRows' = renderTable(fullDataTree.nodes, expandedNodes',
                                hierarchyFields, measureFields)
    /\ lastToggle' = path
    /\ prevExpanded' = expandedNodes
    /\ twiceFrom' = IF lastToggle = path THEN prevExpanded ELSE NotTwice
    /\ UNCHANGED << source, pc, worksheet, hierarchyFields, measureFields,
                    fullDataTree, allData, errorText, loadingShown, containerShown >>

\* the user clicks the header cell of row i, which has a click listener
Click(i) ==
    /\ pc = "ready"
    /\ containerShown
    /\ i \in 1..Len(tableRows.body)
    /\ tableRows.body[i].onClick
    /\ ToggleAndRender(tableRows.body[i].currentPath)

Next ==
    \/ InitializeOk
    \/ InitializeFail
    \/ ReaderFail
    \/ ReaderOk
    \/ ReleaseFail
    \/ ReleaseOk
    \/ \E i \in 1..Len(tableRows.body) : Click(i)

Spec == Init /\ [][Next]_vars

---------------------------------------------------------------------------
(* toggleNode and renderTable under any argument: the specification of the  *)
(* two functions' contracts, in which toggleNode is also called with paths  *)
(* that no rendered row holds                                               *)

ToggleKeys == { KeyA, KeyB, KeyAB }

Paths == UNION { [ 1..n -> ToggleKeys ] : n \in 1..MaxPathLen }

\* toggleNode(path) for any path; expandedNodes is kept to MaxExpanded entries
CallToggleNode(path) ==
    /\ pc = "ready"
    /\ Join(path) \in expandedNodes \/ Cardinality(expandedNodes) < MaxExpanded
    /\ ToggleAndRender(path)

ToggleSources ==
    { src \in DataSetsOf(MainTypes) :
        \A r \in 1..Len(src.rows) :
            /\ src.rows[r][1] \in { KeyA, PctNull }
            /\ src.rows[r][2] = KeyA
            /\ src.rows[r][3] = Num(1) }

InitToggle == \E src \in ToggleSources : InitWith(src)

NextToggle ==
    \/ Next
    \/ \E path \in Paths : CallToggleNode(path)

SpecToggle == InitToggle /\ [][NextToggle]_vars

---------------------------------------------------------------------------
(* Worksheets with three hierarchy fields, the first of which has values   *)
(* that hold the separator                                                 *)

DeepTypes == << "date-time", "string", "date", "int" >>

\* rows that differ in their first two hierarchy values
DeepRows ==
    { row \in RowsOf(DeepTypes) : row[3] = KeyA /\ row[4] = Num(1) }

DeepSources ==
    { [ columns |-> ColumnsOf(DeepTypes), rows |-> rows ] :
        rows \in UNION { [ 1..n -> DeepRows ] : n \in 0..MaxRows } }

InitDeep == \E src \in DeepSources : InitWith(src)

SpecDeep == InitDeep /\ [][Next]_vars

---------------------------------------------------------------------------
(* Worksheets with any columns and no rows: the classification of columns  *)

MaxCols == 3

DataTypes == { "string", "date", "date-time", "int", "float", "bool" }

TypeLists == UNION { [ 1..n -> DataTypes ] : n \in 0..MaxCols }

ClassifySources ==
    { [ columns |-> ColumnsOf(types), rows |-> << >> ] : types \in TypeLists }

InitClassify == \E src \in ClassifySources : InitWith(src)

\* no row is rendered, so there is nothing to click
NextClassify ==
    \/ InitializeOk
    \/ InitializeFail
    \/ ReaderFail
    \/ ReaderOk
    \/ ReleaseFail
    \/ ReleaseOk

SpecClassify == InitClassify /\ [][NextClassify]_vars

---------------------------------------------------------------------------
(* Notions the properties are stated in *)

Loaded == pc = "ready"

Tree == fullDataTree.nodes

Depth == Len(hierarchyFields)

\* a hierarchy value that is null, undefined or the '%null%' sentinel
IsAbsent(value) == value \in { JsNull, JsUndefined, PctNull }

\* a measure value that is null or undefined
IsNoMeasure(value) == value \in { JsNull, JsUndefined }

\* the row's value for the hierarchy field of level L (0-based)
HierValue(row, L) == row[hierarchyFields[L + 1].index + 1]

\* the row's value for measure field number m (1-based)
MeasureValue(row, m) == row[measureFields[m].index + 1]

MeasureName(m) == measureFields[m].fieldName

\* the first level at which the row has no value; Depth when it has all
FirstAbsent(row) ==
    IF \E L \in 0..(Depth - 1) : IsAbsent(HierValue(row, L))
    THEN CHOOSE L \in 0..(Depth - 1) :
            /\ IsAbsent(HierValue(row, L))
            /\ \A K \in 0..(L - 1) : ~IsAbsent(HierValue(row, K))
    ELSE Depth

\* the row's values for levels 0..L
Prefix(row, L) == [ i \in 1..(L + 1) |-> HierValue(row, i - 1) ]

\* the row has the non-null values P[1], ..., P[Len(P)] in hierarchy fields
\* 0..Len(P)-1: its path passes through the node for P
Backs(row, P) ==
    /\ Len(P) <= Depth
    /\ \A i \in 1..Len(P) :
          ~IsAbsent(HierValue(row, i - 1)) /\ HierValue(row, i - 1) = P[i]

KeyValues == { v \in StringValues \cup DateValues \cup DateTimeValues : ~IsAbsent(v) }

AllPaths == UNION { [ 1..n -> KeyValues ] : n \in 1..Depth }

\* the tree after the first k rows; after all of them it is fullDataTree
TreeAfter(k) ==
    IF k = Len(allData) THEN Tree
    ELSE buildHierarchicalTree(SubSeq(allData, 1, k), hierarchyFields, measureFields)

Max(S) == CHOOSE x \in S : \A y \in S : y <= x

\* the rows that have path P and a value for measure m
Writers(P, m) ==
    { i \in 1..Len(allData) :
        Backs(allData[i], P) /\ ~IsNoMeasure(MeasureValue(allData[i], m)) }

\* s is k followed by '|' and possibly more
HasPrefixThenBar(s, k) ==
    /\ Len(s) > Len(k)
    /\ \A i \in 1..Len(k) : s[i] = k[i]
    /\ s[Len(k) + 1] = "|"

\* Q is a proper extension of P
Extends(Q, P) == Len(Q) > Len(P) /\ SubSeq(Q, 1, Len(P)) = P

HasChild(P) == \E Q \in DOMAIN Tree : Len(Q) = Len(P) + 1 /\ Extends(Q, P)

Toggled == Loaded /\ lastToggle # NoPath

LastKey == Join(lastToggle)

---------------------------------------------------------------------------
(* Properties *)

\* C1 Null truncation: a row whose value at level L is null, undefined or
\* '%null%' creates or updates no node at level L or deeper (the tree after
\* the row has, from level L on, exactly the nodes it had before, unchanged),
\* while the nodes of its path at levels 0..L-1 hold its non-null measure
\* values after it.
C1_NullTruncation ==
    Loaded =>
      \A k \in 1..Len(allData) :
        LET row    == allData[k]
            before == TreeAfter(k - 1)
            after  == TreeAfter(k)
            L      == FirstAbsent(row)
        IN  L < Depth =>
              /\ \A P \in DOMAIN after :
                    (Len(P) - 1 >= L \/ after[P].level >= L) =>
                       P \in DOMAIN before /\ after[P] = before[P]
              /\ \A i \in 0..(L - 1) :
                    /\ Prefix(row, i) \in DOMAIN after
                    /\ \A m \in 1..Len(measureFields) :
                          ~IsNoMeasure(MeasureValue(row, m)) =>
                             /\ MeasureName(m) \in DOMAIN after[Prefix(row, i)].measures
                             /\ after[Prefix(row, i)].measures[MeasureName(m)]
                                   = MeasureValue(row, m)

\* C4 A node exists for path (k0,...,kL) if and only if some input row has
\* the non-null values k0,...,kL in hierarchy fields 0..L.
C4_NodeIffBackedByRow ==
    Loaded =>
      \A P \in AllPaths \cup DOMAIN Tree :
         P \in DOMAIN Tree <=> \E i \in 1..Len(allData) : Backs(allData[i], P)

\* C5 Each node's level field equals its depth in the tree (0 for the
\* children of the root, one more for each step down), and the tree is no
\* deeper than the number of hierarchy fields.
C5_LevelIsDepth ==
    Loaded =>
      \A P \in DOMAIN Tree : Tree[P].level = Len(P) - 1 /\ Len(P) <= Depth

\* C9 Last-write-wins: the node of a full hierarchy path holds, for each
\* measure, the value of the last input row with that path and a non-null
\* value for the measure (so of two such rows, the later one's).
C9_LastWriteWins ==
    Loaded =>
      \A j \in 1..Len(allData) : \A m \in 1..Len(measureFields) :
         LET P == Prefix(allData[j], Depth - 1)
         IN  (FirstAbsent(allData[j]) = Depth /\ Writers(P, m) # {}) =>
                /\ P \in DOMAIN Tree
                /\ MeasureName(m) \in DOMAIN Tree[P].measures
                /\ Tree[P].measures[MeasureName(m)]
                      = MeasureValue(allData[Max(Writers(P, m))], m)

\* C9 witness: two rows with the same full path and different non-null values
\* of a measure have been built into the tree.
C9_Witness ==
    /\ Loaded
    /\ \E i, j \in 1..Len(allData) : \E m \in 1..Len(measureFields) :
          /\ i < j
          /\ FirstAbsent(allData[i]) = Depth
          /\ Prefix(allData[i], Depth - 1) = Prefix(allData[j], Depth - 1)
          /\ ~IsNoMeasure(MeasureValue(allData[i], m))
          /\ ~IsNoMeasure(MeasureValue(allData[j], m))
          /\ MeasureValue(allData[i], m) # MeasureValue(allData[j], m)

\* C10 Ancestor roll-up: every node holds, for each measure, the value of the
\* last input row whose path passes through the node and that has a non-null
\* value for the measure.
C10_AncestorRollUp ==
    Loaded =>
      \A P \in DOMAIN Tree : \A m \in 1..Len(measureFields) :
         Writers(P, m) # {} =>
            /\ MeasureName(m) \in DOMAIN Tree[P].measures
            /\ Tree[P].measures[MeasureName(m)]
                  = MeasureValue(allData[Max(Writers(P, m))], m)

\* C2 Cascading collapse: toggleNode of a path whose pathKey is in the set
\* removes pathKey and every entry that is pathKey followed by '|...', and
\* nothing else.
C2_CascadingCollapse ==
    (Toggled /\ LastKey \in prevExpanded) =>
       \A s \in prevExpanded \cup expandedNodes :
          s \in expandedNodes <=>
             (s \in prevExpanded /\ s # LastKey /\ ~HasPrefixThenBar(s, LastKey))

\* C2 witness: expand A, expand A|B, collapse A: neither is left.
C2_Witness ==
    /\ Toggled
    /\ lastToggle = << KeyA >>
    /\ prevExpanded = { KeyA, Join(<< KeyA, KeyB >>) }
    /\ expandedNodes = {}

\* C3 The children of a rendered node are rendered if and only if the node's
\* pathKey is in expandedNodes and the node has at least one child; otherwise
\* no descendant of the node is rendered.
C3_ChildrenShownIffExpanded ==
    Loaded =>
      \A i \in 1..Len(tableRows.body) :
         LET P == tableRows.body[i].currentPath
             open == Join(P) \in expandedNodes /\ HasChild(P)
         IN  /\ open <=>
                  \E j \in 1..Len(tableRows.body) :
                     /\ Extends(tableRows.body[j].currentPath, P)
                     /\ Len(tableRows.body[j].currentPath) = Len(P) + 1
             /\ ~open =>
                  \A j \in 1..Len(tableRows.body) :
                     ~Extends(tableRows.body[j].currentPath, P)

\* C6 Expand adds one key only: toggleNode of a path whose pathKey is not in
\* the set yields the old set plus pathKey.
C6_ExpandAddsOneKey ==
    (Toggled /\ LastKey \notin prevExpanded) =>
       expandedNodes = prevExpanded \cup { LastKey }

\* C6 witness: a node with children in the tree has been expanded while
\* another key was in the set.
C6_Witness ==
    /\ Toggled
    /\ LastKey \notin prevExpanded
    /\ prevExpanded # {}
    /\ lastToggle \in DOMAIN Tree
    /\ HasChild(lastToggle)

\* C7 Toggle idempotence: after two toggleNode calls in succession with the
\* same path, the path's pathKey is in the set if and only if it was before
\* the two calls.
C7_ToggleTwice ==
    (Toggled /\ twiceFrom # NotTwice) =>
       (LastKey \in expandedNodes <=> LastKey \in twiceFrom)

\* C7 witness: a node was collapsed and expanded again, and the keys of its
\* descendants did not come back.
C7_Witness ==
    /\ Toggled
    /\ twiceFrom # NotTwice
    /\ LastKey \in twiceFrom
    /\ expandedNodes # twiceFrom

NoBarInKeys ==
    /\ \A P \in DOMAIN Tree : \A i \in 1..Len(P) : \A c \in 1..Len(P[i]) : P[i][c] # "|"
    /\ \A i \in 1..Len(lastToggle) : \A c \in 1..Len(lastToggle[i]) :
          lastToggle[i][c] # "|"

---------------------------------------------------------------------------
(* Display order *)

\* the characters of the keys, in ascending order of their code units
CodeOrder == << "%", "a", "b", "l", "n", "u", "|" >>

Rank(c) == CHOOSE i \in 1..Len(CodeOrder) : CodeOrder[i] = c

\* s comes before t in lexicographic order
LexBefore(s, t) ==
    \E d \in 1..(Len(s) + 1) :
        /\ d <= Len(t)
        /\ \A i \in 1..(d - 1) : s[i] = t[i]
        /\ (d = Len(s) + 1 \/ Rank(s[d]) < Rank(t[d]))

\* path P comes before path Q in depth-first pre-order with siblings in
\* ascending lexicographic order of their keys
PreOrderBefore(P, Q) ==
    \/ Extends(Q, P)
    \/ \E d \in 1..Len(P) :
          /\ d <= Len(Q)
          /\ SubSeq(P, 1, d - 1) = SubSeq(Q, 1, d - 1)
          /\ LexBefore(P[d], Q[d])

Body == tableRows.body

Reverse(seq) == [ i \in 1..Len(seq) |-> seq[Len(seq) + 1 - i] ]

\* the rows displayed for the same worksheet with its rows in reverse order
BodyOfReversed ==
    renderTable(buildHierarchicalTree(Reverse(allData), hierarchyFields, measureFields),
                expandedNodes, hierarchyFields, measureFields).body

\* C11 Display order: the displayed rows are in depth-first pre-order, every
\* node directly followed by its visible descendants, with the siblings of
\* every level in ascending lexicographic order of their keys; the order of
\* two rows does not depend on the order of the input rows.
C11_DisplayOrder ==
    Loaded =>
      /\ \A i, j \in 1..Len(Body) :
            i < j => PreOrderBefore(Body[i].currentPath, Body[j].currentPath)
      /\ \A j \in 1..Len(Body) :
            Len(Body[j].currentPath) > 1 =>
               \E i \in 1..(j - 1) :
                  Body[i].currentPath
                     = SubSeq(Body[j].currentPath, 1, Len(Body[j].currentPath) - 1)
      /\ LET reversed == BodyOfReversed
         IN  \A i, j \in 1..Len(Body) : \A k, l \in 1..Len(reversed) :
                /\ Body[i].currentPath = reversed[k].currentPath
                /\ Body[j].currentPath = reversed[l].currentPath
                => (i < j <=> k < l)

\* a node and its first child are expanded, and the node's two children come
\* from rows that bring them in descending order
C11_Witness ==
    /\ Loaded
    /\ Len(allData) = 2
    /\ allData[1][1] = allData[2][1]
    /\ LexBefore(allData[2][2], allData[1][2])
    /\ \E i \in 1..Len(Body) :
          /\ i + 3 <= Len(Body)
          /\ Body[i].expanded /\ Len(Body[i].currentPath) = 1
          /\ Body[i + 1].expanded /\ Len(Body[i + 1].currentPath) = 2
          /\ Len(Body[i + 2].currentPath) = 3
          /\ Len(Body[i + 3].currentPath) = 2

\* the paths of the root's direct children
RootPaths == { P \in DOMAIN Tree : Len(P) = 1 }

\* C12 With an empty ExpansionState (the initial render) the displayed rows
\* are exactly the root's direct children: each of them once, at level 0, in
\* ascending lexicographic order of the keys, whatever the depth of the tree.
C12_InitialRenderIsRootLevel ==
    (Loaded /\ expandedNodes = {}) =>
      /\ Len(Body) = Cardinality(RootPaths)
      /\ \A P \in RootPaths :
            Cardinality({ i \in 1..Len(Body) : Body[i].currentPath = P }) = 1
      /\ \A i \in 1..Len(Body) :
            /\ Body[i].currentPath \in RootPaths
            /\ Body[i].dataLevel = 0
            /\ Body[i].name = Body[i].currentPath[1]
      /\ \A i, j \in 1..Len(Body) :
            i < j => LexBefore(Body[i].currentPath[1], Body[j].currentPath[1])

\* the first render of a tree with two top-level nodes and three levels
C12_Witness ==
    /\ Loaded
    /\ expandedNodes = {}
    /\ lastToggle = NoPath
    /\ Cardinality(RootPaths) = 2
    /\ \E P \in DOMAIN Tree : Len(P) = 3

---------------------------------------------------------------------------
(* PathKey identity *)

\* C13 PathKey identity: in a built tree no two distinct nodes have the same
\* pathKey, for all hierarchy values that rows can have, so that no two
\* distinct nodes share their expansion status.
C13_PathKeyIdentity ==
    Loaded =>
      \A P, Q \in DOMAIN Tree :
         P # Q =>
            /\ Join(P) # Join(Q)
            /\ \A i, j \in 1..Len(Body) :
                  (Body[i].currentPath = P /\ Body[j].currentPath = Q) =>
                     Body[i].dataPath # Body[j].dataPath

---------------------------------------------------------------------------
(* The load pipeline *)

HierarchyTypes == { "string", "date-time", "date" }

MeasureTypes == { "float", "int" }

NoHierarchyColumn ==
    \A c \in 1..Len(source.columns) : source.columns[c].dataType \notin HierarchyTypes

NoMeasureColumn ==
    \A c \in 1..Len(source.columns) : source.columns[c].dataType \notin MeasureTypes

\* C15 When the columns hold no hierarchy field or no measure field, the
\* pipeline reports the corresponding error and halts: no tree is built
\* (fullDataTree stays unset), nothing is rendered and the container is never
\* shown; the pipeline halts this way for no other worksheet.
C15_NoFieldsHaltsPipeline ==
    /\ (NoHierarchyColumn \/ NoMeasureColumn) =>
          /\ fullDataTree = NullTree
          /\ tableRows = EmptyTable
          /\ ~containerShown
          /\ pc \notin { "awaitRelease", "ready" }
          /\ pc = "returned" =>
                /\ errorText = IF NoHierarchyColumn THEN "No hierarchy fields found"
                                                    ELSE "No measure fields found"
                /\ ~loadingShown
                /\ ~ENABLED Next
    /\ pc = "returned" => (NoHierarchyColumn \/ NoMeasureColumn)

\* the pipeline has halted on a worksheet that has rows and a hierarchy field
\* and no measure field
C15_Witness ==
    /\ pc = "returned"
    /\ Len(source.rows) > 0
    /\ ~NoHierarchyColumn
    /\ NoMeasureColumn

\* C16 When the load fails at any point (the initialization, the fetch of
\* columns and rows, the release of the reader), the failure is reported as an
\* error message and leaves no partial state: no tree has been built and
\* nothing has been rendered, and nothing can happen afterwards.
C16_FailedLoadLeavesNothing ==
    pc = "failed" =>
      /\ errorText \in { "Failed to initialize extension", "Error loading data" }
      /\ ~loadingShown
      /\ fullDataTree = NullTree
      /\ tableRows = EmptyTable
      /\ ~containerShown
      /\ lastToggle = NoPath
      /\ ~ENABLED Next

\* the release of the reader has failed after the rows of a worksheet with
\* hierarchy and measure fields were read
C16_Witness ==
    /\ pc = "failed"
    /\ Len(allData) > 0
    /\ Len(hierarchyFields) > 0
    /\ Len(measureFields) > 0

---------------------------------------------------------------------------
(* Frame conditions *)

\* C17 After a successful load every toggle followed by its render leaves
\* the tree and the classified field lists unchanged; the render that ends the
\* load changes neither the expansion state nor the field lists; and the rows
\* displayed are a function of the tree and the expansion state: two
\* states with the same tree, fields and expansion state display the same
\* rows, namely their projection.
C17_TogglesAndRendersKeepTree ==
    [][ /\ Loaded =>
             /\ fullDataTree' = fullDataTree
             /\ hierarchyFields' = hierarchyFields
             /\ measureFields' = measureFields
             /\ allData' = allData
             /\ tableRows' = renderTable(fullDataTree.nodes, expandedNodes',
                                         hierarchyFields, measureFields)
        /\ (pc = "awaitRelease" /\ pc' = "ready") =>
             /\ expandedNodes' = expandedNodes
             /\ hierarchyFields' = hierarchyFields
             /\ measureFields' = measureFields
             /\ tableRows' = renderTable(fullDataTree'.nodes, expandedNodes,
                                         hierarchyFields, measureFields)
      ]_vars

\* a node with children has been expanded and collapsed again
C17_Witness ==
    /\ Toggled
    /\ twiceFrom # NotTwice
    /\ lastToggle \in DOMAIN Tree
    /\ HasChild(lastToggle)
    /\ LastKey \notin expandedNodes

---------------------------------------------------------------------------
(* Classification of the columns *)

\* the positions of the columns whose type is in `types`, in ascending order
PositionsOf(types) ==
    LET pos == { c \in 1..Len(source.columns) : source.columns[c].dataType \in types }
    IN  CHOOSE seq \in [ 1..Cardinality(pos) -> pos ] :
            \A i, j \in 1..Cardinality(pos) : i < j => seq[i] < seq[j]

\* the fields made of the columns whose type is in `types`, in source order
FieldsOfTypes(types) ==
    [ i \in 1..Len(PositionsOf(types)) |->
        [ index     |-> source.columns[PositionsOf(types)[i]].index,
          fieldName |-> source.columns[PositionsOf(types)[i]].fieldName ] ]

Classified == pc \in { "returned", "awaitRelease", "ready" }

Range(seq) == { seq[i] : i \in 1..Len(seq) }

\* C18 identifyFieldTypes partitions any ordered column list: hierarchyFields
\* is exactly the subsequence of the string, date and date-time columns in
\* source order, measureFields exactly the subsequence of the int and float
\* columns in source order, no column is in both lists and a column of any
\* other type is in neither.
C18_ClassificationPartitions ==
    Classified =>
      /\ hierarchyFields = FieldsOfTypes(HierarchyTypes)
      /\ measureFields = FieldsOfTypes(MeasureTypes)
      /\ Range(hierarchyFields) \cap Range(measureFields) = {}
      /\ \A c \in 1..Len(source.columns) :
            source.columns[c].dataType \notin (HierarchyTypes \cup MeasureTypes) =>
               \A f \in Range(hierarchyFields) \cup Range(measureFields) :
                  f.index # source.columns[c].index

\* the columns classified are a measure, a column of another type and two
\* hierarchy columns of different types, the measure first
C18_Witness ==
    /\ Classified
    /\ Len(source.columns) = 3
    /\ source.columns[1].dataType = "int"
    /\ source.columns[2].dataType = "date-time"
    /\ source.columns[3].dataType = "string"
    /\ Len(hierarchyFields) = 2
    /\ Len(measureFields) = 1

---------------------------------------------------------------------------
(* Expansion state reachable by clicks *)

\* no hierarchy value of any row holds the separator
NoBarInHierarchyValues ==
    \A r \in 1..Len(allData) : \A L \in 0..(Depth - 1) :
       \A i \in 1..Len(HierValue(allData[r], L)) : HierValue(allData[r], L)[i] # "|"

\* s is the pathKey of a node that has expandable children and whose proper
\* ancestors are all expanded
KeyOfReachableNode(s) ==
    \E P \in DOMAIN Tree :
       /\ Join(P) = s
       /\ Tree[P].hasChildren
       /\ HasChild(P)
       /\ \A n \in 1..(Len(P) - 1) : Join(SubSeq(P, 1, n)) \in expandedNodes

\* C19 In every state reached from a successful load by clicks alone, when no
\* hierarchy value holds '|', every key in expandedNodes is the pathKey of a
\* node of the tree that has expandable children, and the pathKeys of that
\* node's proper ancestors are in expandedNodes too: no expanded key is hidden
\* under a collapsed ancestor.
C19_ExpandedKeysAreVisibleNodes ==
    (Loaded /\ NoBarInHierarchyValues) =>
       \A s \in expandedNodes : KeyOfReachableNode(s)

\* clicks have expanded a top-level node and then one of its children, in a
\* tree with two top-level nodes whose values hold no '|'
C19_Witness ==
    /\ Loaded
    /\ NoBarInHierarchyValues
    /\ Len(lastToggle) = 2
    /\ LastKey \in expandedNodes
    /\ Cardinality(expandedNodes) = 2
    /\ Cardinality(RootPaths) = 2

---------------------------------------------------------------------------
(* Ordering of the load, the toggles and the renders *)

\* the stage of the load: the three terminal stages come last
PcRank(stage) ==
    CASE stage = "initializing" -> 0
      [] stage = "awaitReader"  -> 1
      [] stage = "awaitRelease" -> 2
      [] OTHER                  -> 3

\* C20 Load/toggle ordering: the load passes each of its stages once and has
\* read all rows before the tree is built and first rendered; no toggle and
\* no render happens before the tree is built or after a failed load; each
\* click toggles and renders in one step, so that after every event of a
\* loaded extension the rows displayed are the projection of the current
\* tree and expansion state.
C20_LoadToggleOrdering ==
    [][ /\ PcRank(pc') >= PcRank(pc)
        /\ pc' = pc => pc = "ready"
        /\ PcRank(pc) = 3 => pc' = pc
        /\ fullDataTree' # fullDataTree =>
              /\ fullDataTree.isNull
              /\ pc = "awaitRelease" /\ pc' = "ready"
              /\ allData = source.rows
              /\ tableRows = EmptyTable
        /\ tableRows' # tableRows => (pc' = "ready" /\ ~fullDataTree'.isNull)
        /\ (expandedNodes' # expandedNodes \/ history' # history) =>
              (pc = "ready" /\ ~fullDataTree.isNull)
        /\ pc' = "ready" =>
              /\ containerShown'
              /\ tableRows' = renderTable(fullDataTree'.nodes, expandedNodes',
                                          hierarchyFields', measureFields')
        /\ pc' \in { "failed", "returned" } =>
              (tableRows' = EmptyTable /\ fullDataTree'.isNull /\ expandedNodes' = {})
      ]_vars

\* two clicks after the load: different rows are displayed than before the
\* last click
C20_Witness ==
    /\ Toggled
    /\ prevExpanded # {}
    /\ expandedNodes # prevExpanded
    /\ Body # renderTable(Tree, prevExpanded, hierarchyFields, measureFields).body

===========================================================================
